---- MODULE Spec2Model ----
(***************************************************************************)
(* Model of generate-icons.py: the import guard, create_icon(size,         *)
(* filename) and the __main__ block that calls it four times.              *)
(*                                                                         *)
(* Floating point.  The script computes the wave in IEEE doubles.  Here    *)
(* every quantity is a rational or a fixed-point number with 28            *)
(* fractional bits, and int() is the truncation of that number.  The sine  *)
(* is exact where the script's sine term times the amplitude is an         *)
(* integer (arguments 0, pi/2, pi, 3pi/2 reduce to the constants 0 and 1   *)
(* before any series is evaluated), and its error elsewhere (below 2^-24)  *)
(* is far smaller than the distance of any sample of the four icons to an  *)
(* integer row.                                                            *)
(*                                                                         *)
(* Pillow.  The drawing library is not part of the repository.  An image   *)
(* is modelled by its dimensions and the colours of a few probe pixels;    *)
(* draw.line and draw.ellipse are modelled by the region outside which     *)
(* they leave every pixel untouched, and the probes are pixels where that  *)
(* region and the painted region agree (corners, far from every shape;     *)
(* the first wave sample and the marker centre, inside a shape).           *)
(***************************************************************************)
EXTENDS Integers, Sequences, FiniteSets, TLC

----------------------------------------------------------------------------
(* Bounds of the model *)

\* number of times the script is started, one run after the other
MaxRuns == 2

----------------------------------------------------------------------------
(* Arithmetic helpers *)

Max(a, b) == IF a >= b THEN a ELSE b

Min(a, b) == IF a <= b THEN a ELSE b

Abs(a) == IF a >= 0 THEN a ELSE -a

\* fixed point: a real r is held as floor(r * One)
One == 2^28

Half == 2^14

\* floor(a * b / c) for 0 <= a, 0 <= b <= c, without leaving 32 bits
MulDiv(a, b, c) == (a \div c) * b + ((a % c) * b) \div c

\* product of two fixed-point numbers in [0, 2), truncated
MulFix(a, b) ==
    LET ah == a \div Half
        al == a % Half
        bh == b \div Half
        bl == b % Half
    IN  ah * bh + (ah * bl + al * bh + (al * bl) \div Half) \div Half

\* pi as a fixed-point number
PiFix == 843314857

\* Taylor series of sine and cosine about 0 in Horner form, for a
\* fixed-point t in [0, pi/4]
SinSeries(t) ==
    LET u  == MulFix(t, t)
        h5 == One - MulFix(u, One \div 156)
        h4 == One - MulFix(MulFix(u, One \div 110), h5)
        h3 == One - MulFix(MulFix(u, One \div 72), h4)
        h2 == One - MulFix(MulFix(u, One \div 42), h3)
        h1 == One - MulFix(MulFix(u, One \div 20), h2)
        h0 == One - MulFix(MulFix(u, One \div 6), h1)
    IN  MulFix(t, h0)

CosSeries(t) ==
    LET u  == MulFix(t, t)
        h5 == One - MulFix(u, One \div 132)
        h4 == One - MulFix(MulFix(u, One \div 90), h5)
        h3 == One - MulFix(MulFix(u, One \div 56), h4)
        h2 == One - MulFix(MulFix(u, One \div 30), h3)
        h1 == One - MulFix(MulFix(u, One \div 12), h2)
    IN  One - MulFix(MulFix(u, One \div 2), h1)

\* sin(pi * n / d) for 0 <= 2n <= d: first quadrant
SinQuadrant(n, d) ==
    IF n = 0 THEN 0
    ELSE IF 2 * n = d THEN One
    ELSE IF 4 * n <= d THEN SinSeries(MulDiv(PiFix, n, d))
    ELSE CosSeries(MulDiv(PiFix, d - 2 * n, 2 * d))

\* math.sin(pi * n / d) as a signed fixed-point number, n >= 0, d > 0
SinPi(n, d) ==
    LET m == n % (2 * d)
        k == IF m >= d THEN m - d ELSE m
        q == IF 2 * k > d THEN d - k ELSE k
        s == SinQuadrant(q, d)
    IN  IF m >= d THEN -s ELSE s

----------------------------------------------------------------------------
(* create_icon: the quantities it computes *)

\* wave_amplitude = size * 0.15, held as the rational AmplitudeNum(size)/20
AmplitudeNum(size) == 3 * size

AmplitudeDen == 20

\* faulty variant: the wave centred on the top row
wave_center_yTop(size) == 0

\* line 24
wave_center_y(size) == size \div 2

\* int(a / b) for the rational a / b: Python's int() truncates toward zero
Trunc(a, b) == IF a >= 0 THEN a \div b ELSE -((-a) \div b)

\* floor(s * k / (AmplitudeDen * One)) for a signed fixed-point s, |s| <= One
ScaleSine(s, k) ==
    LET sh == s \div Half
        sl == s % Half
    IN  (sh * k + (sl * k) \div Half) \div (AmplitudeDen * Half)

\* line 25: wave_frequency = 1.5, held as FrequencyNum / FrequencyDen
FrequencyNum == 3

FrequencyDen == 2

\* faulty variant: the sine term without wave_frequency
SineTermNoFrequency(size, x) == SinPi(2 * x, size)

\* line 29-30: math.sin(normalized_x) as a signed fixed-point number, where
\* normalized_x = (x / size) * 2 * pi * wave_frequency
\*              = pi * (2 * FrequencyNum * x) / (FrequencyDen * size)
SineTerm(size, x) == SinPi(2 * FrequencyNum * x, FrequencyDen * size)

\* line 30-31: y = wave_center_y + sin(normalized_x) * wave_amplitude, and
\* the sample int(y).  y > 0 in every column, so int(y) is the floor of y.
WaveY(size, x) ==
    wave_center_y(size) + ScaleSine(SineTerm(size, x), AmplitudeNum(size))

\* lines 22-31: the list points after the loop, one (x, int(y)) per column
WavePoints(size) == [i \in 1..size |-> <<i - 1, WaveY(size, i - 1)>>]

\* faulty variant: the stroke width without its lower limit
StrokeWidthNoFloor(size) == size \div 100

\* line 34: width of the wave stroke
StrokeWidth(size) == Max(2, size \div 100)

\* lines 37-39
marker_x(size) == size \div 2

\* faulty variant: the marker raised by the whole amplitude
marker_yFullAmplitude(size) ==
    wave_center_y(size) - Trunc(AmplitudeNum(size), AmplitudeDen)

marker_y(size) ==
    wave_center_y(size) - Trunc(AmplitudeNum(size), 2 * AmplitudeDen)

marker_radius(size) == Max(6, size \div 40)

\* line 42: glow_radius = marker_radius + 4
glow_radius(radius) == radius + 4

----------------------------------------------------------------------------
(* Images and files *)

Background == "#05060A"

Accent == "#7AA7FF"

GlowInk == "#7AA7FF40"

\* the pixels of an image whose colour the model follows
ProbeNames == {"nw", "ne", "sw", "se", "wave0", "marker"}

Corners == {"nw", "ne", "sw", "se"}

ProbeAt(size, name) ==
    CASE name = "nw" -> <<0, 0>>
      [] name = "ne" -> <<size - 1, 0>>
      [] name = "sw" -> <<0, size - 1>>
      [] name = "se" -> <<size - 1, size - 1>>
      [] name = "wave0" -> <<0, WaveY(size, 0)>>
      [] name = "marker" -> <<marker_x(size), marker_y(size)>>

\* faulty variant: an image half as high as it is wide
NewImageHalfHeight(size) ==
    [width |-> size, height |-> size \div 2,
     px |-> [n \in ProbeNames |-> Background]]

\* line 18: Image.new('RGB', (size, size), color='#05060A')
NewImage(size) ==
    [width |-> size, height |-> size, px |-> [n \in ProbeNames |-> Background]]

\* no image: the value of img outside create_icon
NoImage == [width |-> 0, height |-> 0, px |-> [n \in ProbeNames |-> ""]]

\* the pixel p lies in the rectangle box = <<x0, y0, x1, y1>>
InBox(p, box) ==
    /\ box[1] <= p[1] /\ p[1] <= box[3]
    /\ box[2] <= p[2] /\ p[2] <= box[4]

\* draw.line(points, width): the stroke of segment i of the polyline stays
\* within width pixels of the segment's bounding box
SegmentBox(pts, i, width) ==
    << Min(pts[i][1], pts[i + 1][1]) - width,
       Min(pts[i][2], pts[i + 1][2]) - width,
       Max(pts[i][1], pts[i + 1][1]) + width,
       Max(pts[i][2], pts[i + 1][2]) + width >>

LineRegion(pts, width, p) ==
    \E i \in 1..(Len(pts) - 1) : InBox(p, SegmentBox(pts, i, width))

\* lines 43-47, 50-54: the bounding box handed to draw.ellipse
EllipseBox(cx, cy, r) == <<cx - r, cy - r, cx + r, cy + r>>

\* an image with the covered probe pixels painted in one colour
Paint(image, covered, colour) ==
    [image EXCEPT !.px = [n \in ProbeNames |->
        IF covered[n] THEN colour ELSE image.px[n]]]

\* line 34: draw.line(points, fill='#7AA7FF', width=max(2, size // 100))
DrawLine(image, pts, width) ==
    Paint(image,
          [n \in ProbeNames |-> LineRegion(pts, width, ProbeAt(image.width, n))],
          Accent)

\* lines 43-47: the glow disc
DrawGlow(image, cx, cy, r) ==
    Paint(image,
          [n \in ProbeNames |->
              InBox(ProbeAt(image.width, n), EllipseBox(cx, cy, r))],
          GlowInk)

\* lines 50-54: the marker disc
DrawMarker(image, cx, cy, r) ==
    Paint(image,
          [n \in ProbeNames |->
              InBox(ProbeAt(image.width, n), EllipseBox(cx, cy, r))],
          Accent)

\* a path that names no file
Absent == [format |-> "absent", width |-> 0, height |-> 0, stamp |-> 0,
           px |-> [n \in ProbeNames |-> ""]]

\* a file left by something other than this script
Stale == [format |-> "stale", width |-> 0, height |-> 0, stamp |-> 0,
          px |-> [n \in ProbeNames |-> ""]]

\* a file that a failed write left truncated
Partial == [format |-> "partial", width |-> 0, height |-> 0, stamp |-> 0,
            px |-> [n \in ProbeNames |-> ""]]

\* lines 62-65: the four calls of the __main__ block, in order
Jobs ==
    << [size |-> 192, filename |-> "icon-192.png"],
       [size |-> 512, filename |-> "icon-512.png"],
       [size |-> 32, filename |-> "favicon.png"],
       [size |-> 180, filename |-> "apple-touch-icon.png"] >>

Filenames == {Jobs[k].filename : k \in 1..Len(Jobs)}

\* the files of the destination directory: the outputs and one bystander
Paths == Filenames \cup {"ICONS_TODO.md"}

\* printed lines
Line(text, filename, size) ==
    [text |-> text, filename |-> filename, size |-> size]

MissingLine1 ==
    Line("PIL (Pillow) not installed. Install with: pip install Pillow", "", 0)

MissingLine2 ==
    Line("Alternatively, use the online tool or ImageMagick (see ICONS_TODO.md)",
         "", 0)

BannerLine == Line("Generating SineDay Wave icons...", "", 0)

CreatedLine(filename, size) == Line("Created", filename, size)

SummaryLine == Line("All icons generated successfully!", "", 0)

DeleteLine ==
    Line("You can now delete ICONS_TODO.md and this script.", "", 0)

----------------------------------------------------------------------------
(* State *)

VARIABLES
    pc,         \* position of the interpreter in the script
    importOk,   \* whether "from PIL import Image, ImageDraw" succeeds
    job,        \* number of create_icon calls made so far in this run
    size,       \* create_icon's parameter size (0 outside a call)
    filename,   \* create_icon's parameter filename ("" outside a call)
    img,        \* create_icon's local img
    points,     \* create_icon's local points
    lineWidth,  \* the width handed to draw.line (0 before line 34)
    marker,     \* create_icon's locals marker_x, marker_y, marker_radius
    fs,         \* the destination directory: path -> file
    written,    \* paths this run has written completely
    saveCalls,  \* path -> number of img.save calls on it in this run
    output,     \* lines printed by this run
    exitCode,   \* exit status of this run, -1 while it runs
    run,        \* number of the run
    snap,       \* the directory as the last completed earlier run left it
    fs0         \* the directory as it was when this run started

vars == <<pc, importOk, job, size, filename, img, points, lineWidth, marker,
          fs, written, saveCalls, output, exitCode, run, snap, fs0>>

\* faulty variant: the file carries the number of the run that wrote it
EncodeStamped(image) ==
    [format |-> "PNG", width |-> image.width, height |-> image.height,
     px |-> image.px, stamp |-> run]

\* line 57: img.save(filename, 'PNG'): what the file holds afterwards
\* (Pillow writes no tIME chunk unless asked: stamp is always 0)
Encode(image) ==
    [format |-> "PNG", width |-> image.width, height |-> image.height,
     px |-> image.px, stamp |-> 0]

----------------------------------------------------------------------------
(* Initial state *)

NoMarker == [x |-> 0, y |-> 0, radius |-> 0]

Running == -1

Terminated == pc \in {"done", "exited", "crashed"}

Init ==
    /\ pc = "import"
    /\ job = 0
    /\ size = 0
    /\ filename = ""
    /\ img = NoImage
    /\ points = <<>>
    /\ lineWidth = 0
    /\ marker = NoMarker
    /\ written = {}
    /\ saveCalls = [f \in Paths |-> 0]
    /\ output = <<>>
    /\ exitCode = Running
    /\ importOk \in BOOLEAN
    /\ fs \in [Paths -> {Absent, Stale}]
    /\ run = 1
    /\ snap = [f \in Paths |-> Absent]
    /\ fs0 = fs

locals == <<size, filename, img, points, lineWidth, marker>>

disk == <<fs, written, saveCalls>>

process == <<importOk, run, snap, fs0>>

----------------------------------------------------------------------------
(* The import guard, lines 7-13 *)

\* lines 7-9
Import ==
    /\ pc = "import"
    /\ pc' = IF importOk THEN "main" ELSE "except"
    /\ UNCHANGED <<job, locals, disk, output, exitCode, process>>

\* faulty variant: the messages are printed and the script carries on
ImportErrorNoExit ==
    /\ pc = "except"
    /\ output' = output \o <<MissingLine1, MissingLine2>>
    /\ pc' = "main"
    /\ UNCHANGED <<job, locals, disk, exitCode, process>>

\* lines 10-13: two messages, then exit(1)
ImportError ==
    /\ pc = "except"
    /\ output' = output \o <<MissingLine1, MissingLine2>>
    /\ exitCode' = 1
    /\ pc' = "exited"
    /\ UNCHANGED <<job, locals, disk, process>>

----------------------------------------------------------------------------
(* The __main__ block, lines 60-67 *)

\* line 61
PrintBanner ==
    /\ pc = "main"
    /\ output' = Append(output, BannerLine)
    /\ pc' = "call"
    /\ UNCHANGED <<job, locals, disk, exitCode, process>>

\* lines 62-65 and 18-19: the next call of create_icon binds its
\* parameters and allocates the image
CallCreateIcon ==
    /\ pc = "call"
    /\ job < Len(Jobs)
    /\ job' = job + 1
    /\ size' = Jobs[job + 1].size
    /\ filename' = Jobs[job + 1].filename
    /\ img' = NewImage(Jobs[job + 1].size)
    /\ pc' = "wave"
    /\ UNCHANGED <<points, lineWidth, marker, disk, output, exitCode, process>>

\* lines 66-67, then the script ends with status 0
PrintSummary ==
    /\ pc = "call"
    /\ job = Len(Jobs)
    /\ output' = output \o <<SummaryLine, DeleteLine>>
    /\ exitCode' = 0
    /\ pc' = "done"
    /\ UNCHANGED <<job, locals, disk, process>>

----------------------------------------------------------------------------
(* create_icon, lines 15-58 *)

\* lines 22-31
ComputeWave ==
    /\ pc = "wave"
    /\ points' = WavePoints(size)
    /\ pc' = "line"
    /\ UNCHANGED <<job, size, filename, img, lineWidth, marker, disk, output,
                   exitCode, process>>

\* line 34
StrokeWave ==
    /\ pc = "line"
    /\ lineWidth' = StrokeWidth(size)
    /\ img' = DrawLine(img, points, StrokeWidth(size))
    /\ pc' = "marker"
    /\ UNCHANGED <<job, size, filename, points, marker, disk, output,
                   exitCode, process>>

\* lines 37-39
ComputeMarker ==
    /\ pc = "marker"
    /\ marker' = [x |-> marker_x(size), y |-> marker_y(size),
                  radius |-> marker_radius(size)]
    /\ pc' = "glow"
    /\ UNCHANGED <<job, size, filename, img, points, lineWidth, disk, output,
                   exitCode, process>>

\* lines 42-47
StrokeGlow ==
    /\ pc = "glow"
    /\ img' = DrawGlow(img, marker.x, marker.y, glow_radius(marker.radius))
    /\ pc' = "dot"
    /\ UNCHANGED <<job, size, filename, points, lineWidth, marker, disk,
                   output, exitCode, process>>

\* lines 50-54
StrokeMarker ==
    /\ pc = "dot"
    /\ img' = DrawMarker(img, marker.x, marker.y, marker.radius)
    /\ pc' = "save"
    /\ UNCHANGED <<job, size, filename, points, lineWidth, marker, disk,
                   output, exitCode, process>>

\* line 57, the write succeeds
Save ==
    /\ pc = "save"
    /\ saveCalls' = [saveCalls EXCEPT ![filename] = @ + 1]
    /\ fs' = [fs EXCEPT ![filename] = Encode(img)]
    /\ written' = written \cup {filename}
    /\ pc' = "print"
    /\ UNCHANGED <<job, locals, output, exitCode, process>>

\* faulty variant: a failed write removes the files written before it
SaveFailsCleanup ==
    /\ pc = "save"
    /\ saveCalls' = [saveCalls EXCEPT ![filename] = @ + 1]
    /\ fs' = [f \in Paths |-> IF f \in written \cup {filename}
                              THEN Absent ELSE fs[f]]
    /\ exitCode' = 1
    /\ pc' = "crashed"
    /\ UNCHANGED <<job, locals, written, output, process>>

\* line 57, the write fails: the exception is caught nowhere (lines 57,
\* 62-65), so the interpreter ends the run with status 1.  The file may be
\* untouched, missing or truncated.
SaveFails ==
    /\ pc = "save"
    /\ saveCalls' = [saveCalls EXCEPT ![filename] = @ + 1]
    /\ \E left \in {fs[filename], Absent, Partial} :
           fs' = [fs EXCEPT ![filename] = left]
    /\ exitCode' = 1
    /\ pc' = "crashed"
    /\ UNCHANGED <<job, locals, written, output, process>>

\* faulty variant: points outlives the call
PrintCreatedKeepsPoints ==
    /\ pc = "print"
    /\ output' = Append(output, CreatedLine(filename, size))
    /\ size' = 0
    /\ filename' = ""
    /\ img' = NoImage
    /\ lineWidth' = 0
    /\ marker' = NoMarker
    /\ pc' = "call"
    /\ UNCHANGED <<points, job, disk, exitCode, process>>

\* line 58, then create_icon returns and its locals are gone
PrintCreated ==
    /\ pc = "print"
    /\ output' = Append(output, CreatedLine(filename, size))
    /\ size' = 0
    /\ filename' = ""
    /\ img' = NoImage
    /\ points' = <<>>
    /\ lineWidth' = 0
    /\ marker' = NoMarker
    /\ pc' = "call"
    /\ UNCHANGED <<job, disk, exitCode, process>>

----------------------------------------------------------------------------
(* The script is started again: a new process, the same directory *)

Restart ==
    /\ Terminated
    /\ run < MaxRuns
    /\ run' = run + 1
    /\ snap' = IF pc = "done" THEN fs ELSE snap
    /\ fs0' = fs
    /\ importOk' \in BOOLEAN
    /\ pc' = "import"
    /\ job' = 0
    /\ size' = 0
    /\ filename' = ""
    /\ img' = NoImage
    /\ points' = <<>>
    /\ lineWidth' = 0
    /\ marker' = NoMarker
    /\ written' = {}
    /\ saveCalls' = [f \in Paths |-> 0]
    /\ output' = <<>>
    /\ exitCode' = Running
    /\ UNCHANGED fs

\* a step of the running script
Step ==
    \/ Import
    \/ ImportError
    \/ PrintBanner
    \/ CallCreateIcon
    \/ ComputeWave
    \/ StrokeWave
    \/ ComputeMarker
    \/ StrokeGlow
    \/ StrokeMarker
    \/ Save
    \/ SaveFails
    \/ PrintCreated
    \/ PrintSummary

Next == Step \/ Restart

Spec == Init /\ [][Next]_vars

----------------------------------------------------------------------------
(* Properties *)

\* positions inside create_icon at which img has been saved or is about to be
AfterDot == {"save", "print", "crashed"}

\* positions at which lines 37-39 have run
AfterMarker == {"glow", "dot"} \cup AfterDot

\* positions at which line 34 has run
AfterLine == {"marker"} \cup AfterMarker

\* positions at which lines 22-31 have run
AfterWave == {"line"} \cup AfterLine

\* the file is a PNG image of w x w pixels
IsIcon(file, w) == file.format = "PNG" /\ file.width = w /\ file.height = w

\* C1: a run that completes has written exactly the four files icon-192.png
\* (192x192), icon-512.png (512x512), favicon.png (32x32) and
\* apple-touch-icon.png (180x180) and touched no other path; and after every
\* img.save of create_icon(size, filename) the file is size x size.
C1_FourFilesOfTheirSize ==
    /\ pc = "done" =>
          /\ written = {"icon-192.png", "icon-512.png", "favicon.png",
                        "apple-touch-icon.png"}
          /\ IsIcon(fs["icon-192.png"], 192)
          /\ IsIcon(fs["icon-512.png"], 512)
          /\ IsIcon(fs["favicon.png"], 32)
          /\ IsIcon(fs["apple-touch-icon.png"], 180)
          /\ \A f \in Filenames : saveCalls[f] = 1
    /\ pc = "print" => IsIcon(fs[filename], size)
    /\ saveCalls["ICONS_TODO.md"] = 0
    /\ fs["ICONS_TODO.md"] = fs0["ICONS_TODO.md"]
    /\ "ICONS_TODO.md" \notin written

C1_Witness == pc = "done" /\ run = 1 /\ fs["favicon.png"].width = 32

\* C2: without the imaging dependency the run prints its two messages and
\* ends with status 1; nothing is left to execute, create_icon is never
\* called, img.save is never called and the directory stays as it was.
C2_MissingDependency ==
    ~importOk =>
        /\ pc \in {"import", "except", "exited"}
        /\ job = 0
        /\ size = 0
        /\ written = {}
        /\ \A f \in Paths : saveCalls[f] = 0
        /\ fs = fs0
        /\ pc = "exited" =>
              /\ exitCode = 1
              /\ output = <<MissingLine1, MissingLine2>>
              /\ ~ENABLED Step
        /\ pc # "exited" => exitCode = Running /\ output = <<>>

C2_Witness == ~importOk /\ pc = "exited" /\ exitCode # 0

\* C3: when the write of the k-th icon fails the run is over with status 1:
\* nothing is left to execute, the failed file saw one img.save call, the
\* files of icons 1..k-1 are the icons that were written, icons k+1..4 saw
\* no img.save call and their files are as the run found them, and neither
\* icon k's confirmation line nor the summary line is printed.
C3_WriteFailureIsFatal ==
    pc = "crashed" =>
        /\ exitCode = 1
        /\ ~ENABLED Step
        /\ job \in 1..4
        /\ filename = Jobs[job].filename
        /\ saveCalls[filename] = 1
        /\ filename \notin written
        /\ \A j \in 1..4 :
              /\ j < job =>
                    /\ IsIcon(fs[Jobs[j].filename], Jobs[j].size)
                    /\ Jobs[j].filename \in written
                    /\ saveCalls[Jobs[j].filename] = 1
              /\ j > job =>
                    /\ saveCalls[Jobs[j].filename] = 0
                    /\ fs[Jobs[j].filename] = fs0[Jobs[j].filename]
                    /\ Jobs[j].filename \notin written
        /\ \A i \in 1..Len(output) :
              /\ output[i] # CreatedLine(filename, size)
              /\ output[i] # SummaryLine
        /\ Len(output) = job

C3_Witness ==
    /\ pc = "crashed"
    /\ job = 3
    /\ fs["favicon.png"] = Partial
    /\ fs0["icon-192.png"] = Absent
    /\ fs["icon-192.png"].format = "PNG"

Confirmed == IF pc \in {"call", "done"} THEN job ELSE Max(job - 1, 0)

\* number of create_icon calls whose file is written
Saved == IF pc \in {"print", "call", "done"} THEN job ELSE Max(job - 1, 0)

\* C5: the generations run one after the other in the order 192, 512, 32,
\* 180: a generation starts from an all-background buffer of its own size
\* with no wave and no marker left by an earlier one, the confirmation
\* lines appear in call order, each only once its file is written, a
\* generation is in progress only when all earlier ones are confirmed, and
\* the summary line is printed only when all four files are written.
C5_Sequential ==
    importOk =>
        /\ (size # 0) =>
              /\ size = <<192, 512, 32, 180>>[job]
              /\ filename = <<"icon-192.png", "icon-512.png", "favicon.png",
                              "apple-touch-icon.png">>[job]
        /\ pc = "wave" =>
              /\ img = [width |-> size, height |-> size,
                        px |-> [n \in ProbeNames |-> "#05060A"]]
              /\ points = <<>>
              /\ lineWidth = 0
              /\ marker = NoMarker
        /\ written = {Jobs[j].filename : j \in 1..Saved}
        /\ Confirmed <= Saved
        /\ Len(output) >= Confirmed + (IF pc = "import" THEN 0 ELSE
                                       IF pc = "main" THEN 0 ELSE 1)
        /\ \A j \in 1..Confirmed :
              output[j + 1] = CreatedLine(Jobs[j].filename, Jobs[j].size)
        /\ \A i \in 1..Len(output) :
              /\ output[i].text = "Created" => i \in 2..(Confirmed + 1)
              /\ output[i] = SummaryLine =>
                    /\ i = 6
                    /\ written = Filenames
                    /\ \A f \in Filenames : fs[f].format = "PNG"

C5_Witness ==
    /\ pc = "done"
    /\ Len(output) = 7
    /\ output[6] = SummaryLine
    /\ output[4] = CreatedLine("favicon.png", 32)

\* largest size for which the stroke width is examined
MaxSize == 1024

\* C6: the width handed to draw.line is max(2, size div 100): 2 for size 32,
\* 5 for size 512, and at least 2 for every size > 0.
C6_StrokeWidth ==
    /\ pc \in AfterLine =>
          /\ lineWidth >= 2
          /\ lineWidth >= size \div 100
          /\ lineWidth = 2 \/ lineWidth = size \div 100
          /\ size = 32 => lineWidth = 2
          /\ size = 512 => lineWidth = 5
    /\ \A s \in 1..MaxSize : StrokeWidth(s) >= 2
    /\ StrokeWidth(32) = 2
    /\ StrokeWidth(512) = 5

C6_Witness == pc = "marker" /\ size = 512 /\ lineWidth = 5

\* C7: the marker centre of the 192 icon is (96, 82); for each of the four
\* sizes marker_x = size div 2 and marker_y = size div 2 minus the integer
\* part of 0.15 * size * 0.5 = 3 * size / 40.
C7_MarkerCentre ==
    pc \in AfterMarker =>
        /\ marker.x = size \div 2
        /\ marker.y = (size \div 2) - ((3 * size) \div 40)
        /\ size = 192 => marker.x = 96 /\ marker.y = 82
        /\ size = 512 => marker.x = 256 /\ marker.y = 218
        /\ size = 32 => marker.x = 16 /\ marker.y = 14
        /\ size = 180 => marker.x = 90 /\ marker.y = 77

C7_Witness == pc = "glow" /\ size = 192 /\ marker.x = 96 /\ marker.y = 82

\* distance of the sample of column x from the centre row
Displacement(x) == Abs(points[x + 1][2] - (size \div 2))

\* C8 as stated: for size 192 the sample of column 64 has the largest
\* displacement from row 96 and no earlier column has that displacement.
C8_PeakAtColumn64 ==
    (pc \in AfterWave /\ size = 192) =>
        /\ \A x \in 0..191 : Displacement(x) <= Displacement(64)
        /\ \A x \in 0..63 : Displacement(x) # Displacement(64)

\* C8 amended: for size 192 the sine term reaches its first peak at column
\* 32 = size / (4 * 1.5), the quarter period: it is 1 there and below 1 in
\* every earlier column, and no column has a sample on a larger row than
\* column 32 (row 124, 28 rows from the centre row 96); at column 64 =
\* size / (2 * 1.5) the sine term is 0 and the sample lies on row 96.
C8_PeakAtColumn32 ==
    (pc \in AfterWave /\ size = 192) =>
        /\ SineTerm(192, 32) = One
        /\ \A x \in 0..31 : SineTerm(192, x) < One
        /\ \A x \in 0..191 : points[x + 1][2] <= points[33][2]
        /\ Displacement(32) = 28
        /\ points[33] = <<32, 124>>
        /\ SineTerm(192, 64) = 0
        /\ points[65] = <<64, 96>>

C8_Witness == pc = "line" /\ size = 192 /\ Len(points) = 192

\* C9 as stated: the marker lies on the wave: marker_y is, within one row,
\* the wave sample of column marker_x.
C9_MarkerOnWave ==
    pc \in AfterMarker => Abs(marker.y - WaveY(size, marker.x)) <= 1

\* C10: the four corner pixels of every image the script draws and of every
\* PNG file it writes have the background colour #05060A.
C10_CornersBackground ==
    /\ size # 0 => \A c \in Corners : img.px[c] = "#05060A"
    /\ \A f \in Filenames :
          fs[f].format = "PNG" => \A c \in Corners : fs[f].px[c] = "#05060A"

C10_Witness ==
    /\ pc = "done"
    /\ \A f \in Filenames :
          /\ fs[f].format = "PNG"
          /\ fs[f].px["nw"] = Background
          /\ fs[f].px["marker"] = Accent

====
